---------------------------- MODULE Spec2Model ----------------------------
(***************************************************************************)
(* Detection & adaptive calibration engine of the plagiarism detector:     *)
(*   backend/app/core/adaptive_engine.py   (AdaptiveEngine)                *)
(*   backend/app/core/feedback_manager.py  (FeedbackManager)               *)
(*   backend/app/core/detector.py          (PlagiarismDetector)            *)
(*   backend/main.py                       (the FastAPI handlers)          *)
(*                                                                         *)
(* Python floats are modelled as exact rationals <<n, d>> in lowest terms  *)
(* (d > 0); None is the pair <<0, 0>>.  Binary rounding error of the       *)
(* float operations themselves is not modelled.                            *)
(***************************************************************************)
EXTENDS Integers, Sequences, FiniteSets, Bags, TLC

-----------------------------------------------------------------------------
(* Bounds of the model *)

\* Feedback rows of mixed kinds the durable store holds at process start
MaxSeed == 4
\* Feedback rows of a single kind the durable store holds at process start
MaxBatch == 10
\* FeedbackManager.submit_feedback calls made on top of a seeded ledger
MaxSeededSubmit == 1
\* largest ledger built by FeedbackManager.submit_feedback calls alone
MaxLedger == 11
\* ReferenceDocument rows the durable store holds at process start
MaxRefs == 2
\* largest in-memory document list
MaxDocs == 3
\* mutating calls of the reference store that are remembered
MaxCalls == 3
\* largest UserDocument table
MaxUserDocs == 3

-----------------------------------------------------------------------------
(* Rational arithmetic standing for Python float arithmetic *)

RECURSIVE GCD(_, _)
GCD(a, b) == IF b = 0 THEN a ELSE GCD(b, a % b)

Abs(n) == IF n < 0 THEN -n ELSE n

Rat(n, d) ==
    LET s == IF d < 0 THEN -1 ELSE 1
        g == GCD(Abs(n), Abs(d))
    IN  <<(s * n) \div g, (s * d) \div g>>

NoneR == <<0, 0>>
IsNone(x) == x[2] = 0
R(n) == <<n, 1>>

RAdd(x, y) ==
    LET g == GCD(x[2], y[2])
    IN  Rat(x[1] * (y[2] \div g) + y[1] * (x[2] \div g), x[2] * (y[2] \div g))
RNeg(x) == <<-x[1], x[2]>>
RSub(x, y) == RAdd(x, RNeg(y))
RMul(x, y) ==
    LET g1 == GCD(Abs(x[1]), y[2])
        g2 == GCD(Abs(y[1]), x[2])
    IN  Rat((x[1] \div g1) * (y[1] \div g2), (x[2] \div g2) * (y[2] \div g1))
RDiv(x, y) == RMul(x, IF y[1] < 0 THEN <<-y[2], -y[1]>> ELSE <<y[2], y[1]>>)
RLe(x, y) == x[1] * y[2] <= y[1] * x[2]
RLt(x, y) == x[1] * y[2] < y[1] * x[2]
RMax(x, y) == IF RLt(x, y) THEN y ELSE x
RMin(x, y) == IF RLt(y, x) THEN y ELSE x

\* Python round(x, k) with scale = 10^k: nearest multiple of 1/scale, a tie
\* going to the even last digit
Round(x, scale) ==
    LET n == x[1] * scale
        q == n \div x[2]
        r == n - q * x[2]
        up == \/ 2 * r > x[2]
              \/ 2 * r = x[2] /\ q % 2 = 1
    IN  Rat(IF up THEN q + 1 ELSE q, scale)


-----------------------------------------------------------------------------
(* State *)

VARIABLES
    ledger,                    \* Feedback table: a bag of rows
    layer_weights,             \* LayerWeights table: its first row, if any
    mgr_threshold_adjustment,  \* FeedbackManager._threshold_adjustment
    documents,                 \* PlagiarismDetector.documents
    embeddings,                \* PlagiarismDetector.embeddings
    db_initialized,            \* PlagiarismDetector._db_initialized
    db_refs,                   \* ReferenceDocument table
    calls,                     \* the last add/remove/clear calls of the store
    user_docs,                 \* UserDocument table
    weights_rows,              \* LayerWeights table: the number of its rows
    found_absent,              \* the processes between the query and the
                               \* insert of get_or_create_weights
    ret                        \* what the last operation returned

vars == <<ledger, layer_weights, mgr_threshold_adjustment,
          documents, embeddings, db_initialized, db_refs, calls, user_docs,
          weights_rows, found_absent, ret>>

rowVars == <<weights_rows, found_absent>>
calVars == <<ledger, layer_weights, mgr_threshold_adjustment, rowVars>>
storeVars == <<documents, embeddings, db_initialized, db_refs, calls>>
userVars == <<user_docs>>

-----------------------------------------------------------------------------
(* Feedback rows *)

FeedbackTypes == {"false_positive", "confirmed"}
WeightedLayers == <<"semantic", "stylometry", "cross_lang">>
RebalanceLayers == {"semantic", "stylometry", "cross_lang", "paraphrase"}
NoLayer == "none"

\* Feedback.severity column default
DefaultSeverity == 50

\* a row of the Feedback table, as far as the engine reads it
Feedback(ftype, layer, score, severity) ==
    [feedback_type |-> ftype, detection_layer |-> layer,
     match_score |-> score, severity |-> severity]

\* db.query(Feedback).filter(...).count(): rows is the set of distinct rows
\* of L that pass the filter
Count(L, rows) ==
    BagCardinality([e \in rows |-> L[e]])

Total(L) == BagCardinality(L)

Append1(L, e) == L (+) SetToBag({e})

\* n copies of the row e
Copies(e, n) == IF n = 0 THEN EmptyBag ELSE [x \in {e} |-> n]

-----------------------------------------------------------------------------
(* LayerWeights row *)

DefaultBaseThreshold == 40

NoRow ==
    [exists |-> FALSE,
     semantic_weight |-> NoneR, stylometry_weight |-> NoneR,
     cross_lang_weight |-> NoneR, base_threshold |-> NoneR,
     threshold_adjustment |-> NoneR, total_feedback_processed |-> 0]

\* LayerWeights(semantic_weight=0.5, stylometry_weight=0.3, ...)
DefaultRow ==
    [exists |-> TRUE,
     semantic_weight |-> Rat(5, 10), stylometry_weight |-> Rat(3, 10),
     cross_lang_weight |-> Rat(2, 10), base_threshold |-> R(DefaultBaseThreshold),
     threshold_adjustment |-> R(0), total_feedback_processed |-> 0]

-----------------------------------------------------------------------------
(* What an operation returns; fields an operation does not set are blank *)

NoWeights == <<NoneR, NoneR, NoneR>>

Blank ==
    [op |-> "init", status |-> "", error |-> "",
     threshold |-> NoneR, learning_active |-> FALSE, feedback_needed |-> 0,
     total_feedback |-> 0, global_fp_rate |-> NoneR,
     threshold_adjustment |-> NoneR, new_weights |-> NoWeights,
     repeated |-> FALSE, entry |-> Feedback("", "", 0, 0), appended |-> 0,
     request |-> [feedback_type |-> "", detection_layer |-> "", severity |-> 0],
     query |-> "", used_threshold |-> NoneR, matches |-> <<>>, max_score |-> NoneR,
     doc_id |-> "", found |-> FALSE, load |-> "", durable |-> "",
     requester |-> "", total_documents_checked |-> 0,
     score_range_analysis |-> <<>>, layer_statistics |-> <<>>]

-----------------------------------------------------------------------------
(* AdaptiveEngine *)

\* AdaptiveEngine._min_feedback_for_learning
MinFeedbackForLearning_five == 2 + 3

MinFeedbackForLearning == 10

IsFP(e) == e.feedback_type = "false_positive"
IsConfirmed(e) == e.feedback_type = "confirmed"

\* weights.base_threshold if weights else 40.0
BaseOf(row) == IF row.exists THEN row.base_threshold ELSE R(DefaultBaseThreshold)

\* score_ranges = [(0, 30), (30, 50), (50, 70), (70, 100)]
ScoreRanges == <<<<0, 30>>, <<30, 50>>, <<50, 70>>, <<70, 100>>>>

\* one entry of range_stats: both counts filter low <= match_score < high
RangeStat(L, low, high) ==
    LET InRange(e) == e.match_score >= low /\ e.match_score < high
        FPIn(e) == IsFP(e) /\ InRange(e)
        ConfIn(e) == IsConfirmed(e) /\ InRange(e)
        fp_count == Count(L, {e \in DOMAIN L : FPIn(e)})
        confirmed_count == Count(L, {e \in DOMAIN L : ConfIn(e)})
        total_range == fp_count + confirmed_count
        fp_rate == IF total_range > 0 THEN Rat(fp_count, total_range) ELSE R(0)
    IN  [low |-> low, high |-> high,
         false_positives |-> fp_count, confirmed |-> confirmed_count,
         fp_rate |-> Round(RMul(fp_rate, R(100)), 10)]

RangeStats(L) ==
    [i \in 1..Len(ScoreRanges) |-> RangeStat(L, ScoreRanges[i][1], ScoreRanges[i][2])]

\* the loop that picks optimal_threshold (a local that is never returned)
OptimalThreshold(L) ==
    LET rs == RangeStats(L)
        ok == {i \in 1..Len(rs) : RLt(rs[i].fp_rate, R(30)) /\ rs[i].confirmed > 0}
    IN  IF ok = {} THEN R(DefaultBaseThreshold)
        ELSE R(ScoreRanges[CHOOSE i \in ok : \A j \in ok : i <= j][1])

\* global_fp_rate = total_fp / total if total > 0 else 0
GlobalFpRate_confirmed(L) ==
    IF Total(L) > 0
    THEN Rat(Count(L, {e \in DOMAIN L : IsConfirmed(e)}), Total(L))
    ELSE R(0)

GlobalFpRate(L) ==
    IF Total(L) > 0
    THEN Rat(Count(L, {e \in DOMAIN L : IsFP(e)}), Total(L))
    ELSE R(0)

\* max(lo, min(hi, x))
Clamp(lo, hi, x) == RMax(lo, RMin(hi, x))

\* adjustment = (global_fp_rate - 0.3) * 20, clamped to +-15
AdaptiveAdjustment_target50(rate) ==
    Clamp(R(-15), R(15), RMul(RSub(rate, Rat(5, 10)), R(20)))

AdaptiveAdjustment(rate) ==
    Clamp(R(-15), R(15), RMul(RSub(rate, Rat(3, 10)), R(20)))

\* the write of the adjustment into the LayerWeights row
CalibratedRow_effective(row, adjustment, total) ==
    [row EXCEPT !.threshold_adjustment = RAdd(row.base_threshold, adjustment),
                !.total_feedback_processed = total]

CalibratedRow(row, adjustment, total) ==
    [row EXCEPT !.threshold_adjustment = adjustment,
                !.total_feedback_processed = total]

\* calculate_adaptive_threshold: the row it leaves and the tuple it returns
CalculateAdaptiveThreshold(L, row) ==
    LET total == Total(L)
    IN  IF total < MinFeedbackForLearning
        THEN [row |-> row,
              threshold |-> BaseOf(row),
              learning_active |-> FALSE,
              feedback_needed |-> MinFeedbackForLearning - total,
              total_feedback |-> 0,
              global_fp_rate |-> NoneR,
              threshold_adjustment |-> NoneR,
              score_range_analysis |-> <<>>]
        ELSE LET global_fp_rate == GlobalFpRate(L)
                 adjustment == AdaptiveAdjustment(global_fp_rate)
                 row2 == IF row.exists THEN CalibratedRow(row, adjustment, total)
                         ELSE row
                 effective_threshold == RAdd(BaseOf(row2), adjustment)
             IN  [row |-> row2,
                  threshold |-> effective_threshold,
                  learning_active |-> TRUE,
                  feedback_needed |-> 0,
                  total_feedback |-> total,
                  global_fp_rate |-> Round(RMul(global_fp_rate, R(100)), 10),
                  threshold_adjustment |-> Round(adjustment, 10),
                  score_range_analysis |-> RangeStats(L)]

\* layer_stats[layer]["accuracy"]: round(accuracy * 100, 1)
LayerAccuracy_untagged(L, layer) ==
    LET FPOf(e) == IsFP(e) /\ e.detection_layer \in {layer, NoLayer}
        ConfOf(e) == IsConfirmed(e) /\ e.detection_layer \in {layer, NoLayer}
        fp_count == Count(L, {e \in DOMAIN L : FPOf(e)})
        confirmed_count == Count(L, {e \in DOMAIN L : ConfOf(e)})
        total == fp_count + confirmed_count
        accuracy == IF total > 0 THEN Rat(confirmed_count, total) ELSE Rat(5, 10)
    IN  Round(RMul(accuracy, R(100)), 10)

LayerAccuracy(L, layer) ==
    LET FPOf(e) == IsFP(e) /\ e.detection_layer = layer
        ConfOf(e) == IsConfirmed(e) /\ e.detection_layer = layer
        fp_count == Count(L, {e \in DOMAIN L : FPOf(e)})
        confirmed_count == Count(L, {e \in DOMAIN L : ConfOf(e)})
        total == fp_count + confirmed_count
        accuracy == IF total > 0 THEN Rat(confirmed_count, total) ELSE Rat(5, 10)
    IN  Round(RMul(accuracy, R(100)), 10)

Sum3(w) == RAdd(RAdd(w[1], w[2]), w[3])

\* for key in new_weights: new_weights[key] = max(0.1, min(0.8, new_weights[key]))
ClampWeights(w) == [i \in 1..3 |-> Clamp(Rat(1, 10), Rat(8, 10), w[i])]

\* total_weight = sum(...); new_weights[key] = new_weights[key] / total_weight
NormalizeWeights_skipped(w) == w

NormalizeWeights(w) == [i \in 1..3 |-> RDiv(w[i], Sum3(w))]

\* the three weights rebalance_layer_weights computes from the ledger
NewWeights_smoothed(L) ==
    LET acc == [i \in 1..3 |-> RDiv(LayerAccuracy(L, WeightedLayers[i]), R(100))]
        old == <<layer_weights.semantic_weight, layer_weights.stylometry_weight,
                 layer_weights.cross_lang_weight>>
        mix == [i \in 1..3 |->
                  IF layer_weights.exists
                  THEN RDiv(RAdd(acc[i], old[i]), R(2)) ELSE acc[i]]
        total_accuracy == IF Sum3(mix) = R(0) THEN R(1) ELSE Sum3(mix)
    IN  NormalizeWeights(ClampWeights([i \in 1..3 |-> RDiv(mix[i], total_accuracy)]))

NewWeights(L) ==
    LET accuracies ==
            [i \in 1..3 |-> RDiv(LayerAccuracy(L, WeightedLayers[i]), R(100))]
        total_accuracy == IF Sum3(accuracies) = R(0) THEN R(1) ELSE Sum3(accuracies)
        provisional == [i \in 1..3 |-> RDiv(accuracies[i], total_accuracy)]
    IN  NormalizeWeights(ClampWeights(provisional))

\* the write of the weights into the LayerWeights row
RebalancedRow(row, w) ==
    [row EXCEPT !.semantic_weight = w[1], !.stylometry_weight = w[2],
                !.cross_lang_weight = w[3]]

RowWeights(row) ==
    <<row.semantic_weight, row.stylometry_weight, row.cross_lang_weight>>

\* rebalance_layer_weights: the row it leaves and the "new_weights" it returns
RebalanceLayerWeights(L, row) ==
    LET w == NewWeights(L)
    IN  [row |-> IF row.exists THEN RebalancedRow(row, w) ELSE row,
         layer_statistics |->
             [layer \in RebalanceLayers |-> LayerAccuracy(L, layer)],
         new_weights |-> [i \in 1..3 |-> Round(w[i], 1000)]]

-----------------------------------------------------------------------------
(* FeedbackManager *)

\* FeedbackManager._min_feedback_for_adjustment
MinFeedbackForAdjustment_twelve == 10 + 2

MinFeedbackForAdjustment == 10

\* Python int(x): truncation toward zero
IntOf(x) ==
    IF x[1] >= 0 THEN x[1] \div x[2] ELSE -((-x[1]) \div x[2])

\* _update_threshold_adjustment: the value it leaves in _threshold_adjustment
UpdatedThresholdAdjustment(L) ==
    LET total == Total(L)
    IN  IF total < MinFeedbackForAdjustment THEN R(0)
        ELSE Clamp(R(-10), R(10),
                   RMul(RSub(Rat(Count(L, {e \in DOMAIN L : IsFP(e)}), total),
                             Rat(5, 10)), R(20)))

\* the Feedback row submit_feedback builds: no detection_layer, no severity
SubmittedRow(match_score, feedback_type) ==
    Feedback(feedback_type, NoLayer, IntOf(match_score), DefaultSeverity)

-----------------------------------------------------------------------------
(* Inputs *)

\* match_score values callers pass
ScoreInputs == {R(80), Rat(809, 10)}

\* match_score values FeedbackManager.submit_feedback stores for them
StoredScores == {IntOf(x) : x \in ScoreInputs}

LayeredCount(L) ==
    Count(L, {e \in DOMAIN L : e.detection_layer # NoLayer})

UnlayeredCount(L) ==
    Count(L, {e \in DOMAIN L : e.detection_layer = NoLayer})

SeedRow(feedback_type, layer, score) ==
    Feedback(feedback_type, layer, score, DefaultSeverity)

\* any mix of at most MaxSeed rows tagged with the three weighted layers
MixedSeeds ==
    { Copies(SeedRow("false_positive", "semantic", score), t[1])
      (+) Copies(SeedRow("confirmed", "semantic", score), t[2])
      (+) Copies(SeedRow("false_positive", "stylometry", score), t[3])
      (+) Copies(SeedRow("confirmed", "stylometry", score), t[4])
      (+) Copies(SeedRow("false_positive", "cross_lang", score), t[5])
      (+) Copies(SeedRow("confirmed", "cross_lang", score), t[6]) :
        t \in { u \in (0..MaxSeed) \X (0..MaxSeed) \X (0..MaxSeed)
                      \X (0..MaxSeed) \X (0..MaxSeed) \X (0..MaxSeed) :
                  u[1] + u[2] + u[3] + u[4] + u[5] + u[6] <= MaxSeed },
        score \in StoredScores }

\* up to MaxBatch rows of one kind, tagged with one of the layers
BatchSeedsOf(layers) ==
    { Copies(SeedRow(feedback_type, layer, score), n) :
        feedback_type \in FeedbackTypes,
        layer \in layers,
        score \in StoredScores,
        n \in 0..MaxBatch }

BatchSeeds == BatchSeedsOf({"semantic", "stylometry", "cross_lang"})

\* the Feedback table the process starts with
SeedLedgers == MixedSeeds \cup BatchSeeds

-----------------------------------------------------------------------------
(* Operations of the calibration core *)

Init ==
    /\ ledger \in SeedLedgers
    /\ layer_weights = NoRow
    /\ mgr_threshold_adjustment = R(0)
    /\ documents = <<>>
    /\ embeddings = [none |-> TRUE, rows |-> <<>>]
    /\ db_initialized = FALSE
    /\ db_refs = <<>>
    /\ calls = <<>>
    /\ user_docs = <<>>
    /\ weights_rows = 0
    /\ found_absent = {}
    /\ ret = Blank

\* AdaptiveEngine.get_or_create_weights
get_or_create_weights ==
    /\ layer_weights' = IF layer_weights.exists THEN layer_weights ELSE DefaultRow
    /\ weights_rows' = IF layer_weights.exists THEN weights_rows ELSE weights_rows + 1
    /\ ret' = [Blank EXCEPT !.op = "get_or_create_weights", !.status = "success"]
    /\ UNCHANGED <<ledger, mgr_threshold_adjustment, found_absent, storeVars, userVars>>

\* AdaptiveEngine.calculate_adaptive_threshold, r being what it computes
Calculated(r) ==
    /\ layer_weights' = r.row
    /\ ret' = [Blank EXCEPT !.op = "calculate_adaptive_threshold",
                            !.status = "success",
                            !.threshold = r.threshold,
                            !.learning_active = r.learning_active,
                            !.feedback_needed = r.feedback_needed,
                            !.total_feedback = r.total_feedback,
                            !.global_fp_rate = r.global_fp_rate,
                            !.threshold_adjustment = r.threshold_adjustment,
                            !.score_range_analysis = r.score_range_analysis]
    /\ UNCHANGED <<ledger, mgr_threshold_adjustment, rowVars, storeVars, userVars>>

calculate_adaptive_threshold ==
    Calculated(CalculateAdaptiveThreshold(ledger, layer_weights))

\* AdaptiveEngine.rebalance_layer_weights, r being what it computes
Rebalanced(r) ==
    /\ layer_weights' = r.row
    /\ ret' = [Blank EXCEPT !.op = "rebalance_layer_weights",
                            !.status = "success",
                            !.new_weights = r.new_weights,
                            !.layer_statistics = r.layer_statistics,
                            !.repeated = (ret.op = "rebalance_layer_weights")]
    /\ UNCHANGED <<ledger, mgr_threshold_adjustment, rowVars, storeVars, userVars>>

rebalance_layer_weights ==
    Rebalanced(RebalanceLayerWeights(ledger, layer_weights))

\* AdaptiveEngine.trigger_retrain: calculate_adaptive_threshold (t), then
\* rebalance_layer_weights on the row that left (w)
Retrained(t, w) ==
    /\ layer_weights' = w.row
    /\ ret' = [Blank EXCEPT !.op = "trigger_retrain",
                            !.status = "retrain_complete",
                            !.threshold = t.threshold,
                            !.learning_active = t.learning_active,
                            !.feedback_needed = t.feedback_needed,
                            !.total_feedback = t.total_feedback,
                            !.global_fp_rate = t.global_fp_rate,
                            !.threshold_adjustment = t.threshold_adjustment,
                            !.score_range_analysis = t.score_range_analysis,
                            !.new_weights = w.new_weights,
                            !.layer_statistics = w.layer_statistics]
    /\ UNCHANGED <<ledger, mgr_threshold_adjustment, rowVars, storeVars, userVars>>

RetrainSteps(t) == Retrained(t, RebalanceLayerWeights(ledger, t.row))

trigger_retrain ==
    RetrainSteps(CalculateAdaptiveThreshold(ledger, layer_weights))

Submitted_rebalancing(row, L2, adj) ==
    /\ ledger' = L2
    /\ mgr_threshold_adjustment' = adj
    /\ layer_weights' = RebalanceLayerWeights(L2, layer_weights).row
    /\ ret' = [Blank EXCEPT !.op = "FeedbackManager.submit_feedback",
                            !.status = "success",
                            !.request.feedback_type = row.feedback_type,
                            !.request.detection_layer = NoLayer,
                            !.entry = row,
                            !.appended = 1,
                            !.threshold_adjustment = adj]
    /\ UNCHANGED rowVars

\* FeedbackManager.submit_feedback once the row is committed: L2 is the
\* ledger with the row, adj what _update_threshold_adjustment computes from it
Submitted(row, L2, adj) ==
    /\ ledger' = L2
    /\ mgr_threshold_adjustment' = adj
    /\ ret' = [Blank EXCEPT !.op = "FeedbackManager.submit_feedback",
                            !.status = "success",
                            !.request.feedback_type = row.feedback_type,
                            !.request.detection_layer = NoLayer,
                            !.entry = row,
                            !.appended = 1,
                            !.threshold_adjustment = adj]
    /\ UNCHANGED <<layer_weights, rowVars>>

SubmitRow(row, L2) == Submitted(row, L2, UpdatedThresholdAdjustment(L2))

\* FeedbackManager.submit_feedback(doc_id, submitted_text, match_score,
\* feedback_type, username), match_score being one of scores
SubmitFeedback(scores) ==
    \E match_score \in scores, feedback_type \in FeedbackTypes \cup {"other"} :
        /\ Total(ledger) < MaxLedger
        /\ LayeredCount(ledger) > 0 => UnlayeredCount(ledger) < MaxSeededSubmit
        /\ IF feedback_type \notin FeedbackTypes
           THEN /\ ret' = [Blank EXCEPT !.op = "FeedbackManager.submit_feedback",
                                        !.status = "error", !.error = "ValueError",
                                        !.request.feedback_type = feedback_type,
                                        !.request.detection_layer = NoLayer]
                /\ UNCHANGED <<ledger, layer_weights, mgr_threshold_adjustment, rowVars>>
           ELSE SubmitRow(SubmittedRow(match_score, feedback_type),
                          Append1(ledger, SubmittedRow(match_score, feedback_type)))
        /\ UNCHANGED <<storeVars, userVars>>

FeedbackManager_submit_feedback == SubmitFeedback(ScoreInputs)

Next ==
    \/ get_or_create_weights
    \/ calculate_adaptive_threshold
    \/ rebalance_layer_weights
    \/ trigger_retrain
    \/ FeedbackManager_submit_feedback

Spec == Init /\ [][Next]_vars

\* round(false_positives / total * 100, 1) if total > 0 else 0
FalsePositiveRate(L) == Round(RMul(GlobalFpRate(L), R(100)), 10)

\* FeedbackManager.get_stats
get_stats ==
    /\ ret' = [Blank EXCEPT !.op = "get_stats",
                            !.status = "success",
                            !.total_feedback = Total(ledger),
                            !.global_fp_rate = FalsePositiveRate(ledger),
                            !.threshold_adjustment =
                                Round(mgr_threshold_adjustment, 10),
                            !.learning_active =
                                (Total(ledger) >= MinFeedbackForAdjustment)]
    /\ UNCHANGED <<calVars, storeVars, userVars>>

\* AdaptiveEngine.get_analytics
get_analytics ==
    /\ ret' = [Blank EXCEPT !.op = "get_analytics",
                            !.status = "success",
                            !.total_feedback = Total(ledger),
                            !.global_fp_rate = FalsePositiveRate(ledger),
                            !.learning_active =
                                (Total(ledger) >= MinFeedbackForLearning)]
    /\ UNCHANGED <<calVars, storeVars, userVars>>

StatsNext ==
    \/ Next
    \/ get_stats
    \/ get_analytics

\* the calibration core with its two read-only reports
StatsSpec == Init /\ [][StatsNext]_vars

\* match_score is a float the caller chooses: nothing bounds it
AnyScoreInputs == {Rat(299, 10), R(100), R(150)}

submit_feedback_any_score == SubmitFeedback(AnyScoreInputs)

\* a process that starts on an empty Feedback table
ScoreInit ==
    /\ ledger = EmptyBag
    /\ layer_weights = NoRow
    /\ mgr_threshold_adjustment = R(0)
    /\ documents = <<>>
    /\ embeddings = [none |-> TRUE, rows |-> <<>>]
    /\ db_initialized = FALSE
    /\ db_refs = <<>>
    /\ calls = <<>>
    /\ user_docs = <<>>
    /\ weights_rows = 0
    /\ found_absent = {}
    /\ ret = Blank

ScoreNext ==
    \/ submit_feedback_any_score
    \/ calculate_adaptive_threshold

ScoreSpec == ScoreInit /\ [][ScoreNext]_vars

\* any mix of at most MaxSeed rows tagged with the four layers the
\* rebalance counts, next to at most MaxSeededSubmit rows without a layer
TaggedSeeds ==
    { Copies(SeedRow("false_positive", "semantic", score), t[1])
      (+) Copies(SeedRow("confirmed", "semantic", score), t[2])
      (+) Copies(SeedRow("false_positive", "stylometry", score), t[3])
      (+) Copies(SeedRow("confirmed", "stylometry", score), t[4])
      (+) Copies(SeedRow("false_positive", "cross_lang", score), t[5])
      (+) Copies(SeedRow("confirmed", "cross_lang", score), t[6])
      (+) Copies(SeedRow("false_positive", "paraphrase", score), t[7])
      (+) Copies(SeedRow("confirmed", "paraphrase", score), t[8]) :
        t \in { u \in [1..8 -> 0..MaxSeed] :
                  u[1] + u[2] + u[3] + u[4] + u[5] + u[6] + u[7] + u[8]
                      <= MaxSeed },
        score \in StoredScores }

\* a process that starts on a Feedback table of tagged rows
RebalanceInit ==
    /\ ledger \in TaggedSeeds
    /\ layer_weights = NoRow
    /\ mgr_threshold_adjustment = R(0)
    /\ documents = <<>>
    /\ embeddings = [none |-> TRUE, rows |-> <<>>]
    /\ db_initialized = FALSE
    /\ db_refs = <<>>
    /\ calls = <<>>
    /\ user_docs = <<>>
    /\ weights_rows = 0
    /\ found_absent = {}
    /\ ret = Blank

RebalanceNext ==
    \/ get_or_create_weights
    \/ rebalance_layer_weights
    \/ FeedbackManager_submit_feedback

RebalanceSpec == RebalanceInit /\ [][RebalanceNext]_vars

\* the server processes that share the database
Processes == {"p1", "p2"}

\* get_or_create_weights of process p up to `if not weights:`: the query
\* finds the row and the call returns it, or finds nothing
get_or_create_weights_query(p) ==
    /\ p \notin found_absent
    /\ IF layer_weights.exists
       THEN /\ ret' = [Blank EXCEPT !.op = "get_or_create_weights",
                                    !.status = "success", !.requester = p]
            /\ UNCHANGED found_absent
       ELSE /\ found_absent' = found_absent \cup {p}
            /\ UNCHANGED ret
    /\ UNCHANGED <<ledger, layer_weights, mgr_threshold_adjustment, weights_rows,
                   storeVars, userVars>>

\* get_or_create_weights of process p from db.add(weights) on: the default
\* row is inserted and committed, whatever the table holds by now
get_or_create_weights_insert(p) ==
    /\ p \in found_absent
    /\ found_absent' = found_absent \ {p}
    /\ weights_rows' = weights_rows + 1
    /\ layer_weights' = IF layer_weights.exists THEN layer_weights ELSE DefaultRow
    /\ ret' = [Blank EXCEPT !.op = "get_or_create_weights",
                            !.status = "success", !.requester = p]
    /\ UNCHANGED <<ledger, mgr_threshold_adjustment, storeVars, userVars>>

FirstAccessNext ==
    \/ \E p \in Processes : get_or_create_weights_query(p)
    \/ \E p \in Processes : get_or_create_weights_insert(p)
    \/ calculate_adaptive_threshold
    \/ rebalance_layer_weights

\* processes started on a database whose LayerWeights table is empty
FirstAccessInit ==
    /\ ledger \in BatchSeedsOf({"semantic"})
    /\ layer_weights = NoRow
    /\ mgr_threshold_adjustment = R(0)
    /\ documents = <<>>
    /\ embeddings = [none |-> TRUE, rows |-> <<>>]
    /\ db_initialized = FALSE
    /\ db_refs = <<>>
    /\ calls = <<>>
    /\ user_docs = <<>>
    /\ weights_rows = 0
    /\ found_absent = {}
    /\ ret = Blank

FirstAccessSpec == FirstAccessInit /\ [][FirstAccessNext]_vars

-----------------------------------------------------------------------------
(* PlagiarismDetector: the reference store *)

DocIds == {"A", "B"}
Texts == {"t1", "t2"}
QueryTexts == {"q1", "q2"}

\* self.model.encode(text, convert_to_tensor=True): one vector per text
Embed(text) == [vector_of |-> text]

\* detect_language(text)["code"]
LanguageCode(text) ==
    CASE text = "t1" -> "en"
      [] text = "t2" -> "es"
      [] text = "q1" -> "en"
      [] OTHER -> "unknown"

\* util.cos_sim(query_embedding, vector)
CosSim(query, vector) ==
    CASE query = "q1" /\ vector = Embed("t1") -> Rat(50, 100)
      [] query = "q1" /\ vector = Embed("t2") -> Rat(40, 100)
      [] query = "q2" /\ vector = Embed("t1") -> Rat(93, 100)
      [] query = "q2" /\ vector = Embed("t2") -> Rat(93, 100)
      [] OTHER -> R(0)

\* a ReferenceDocument row
Ref(doc_id, text) == [doc_id |-> doc_id, text |-> text]

\* entry = {"id": ..., "text": ..., "language": lang_info}
Entry(doc_id, text) ==
    [id |-> doc_id, text |-> text, language |-> LanguageCode(text)]

NoEmbeddings == [none |-> TRUE, rows |-> <<>>]

\* embeddings = embedding.unsqueeze(0) if None, else torch.cat(...)
WithVector(emb, vector) == [none |-> FALSE, rows |-> Append(emb.rows, vector)]

RECURSIVE WithVectors(_, _, _)
WithVectors(emb, refs, n) ==
    IF n = 0 THEN emb
    ELSE WithVector(WithVectors(emb, refs, n - 1), Embed(refs[n].text))

\* how a _load_from_db run can end: without exception, with the query
\* raising, or with the handling of the at-th row raising in
\* detect_language (before documents.append) or in model.encode (after it)
LoadOutcomes(refs) ==
    {[stage |-> "none", at |-> 0], [stage |-> "query", at |-> 0]}
    \cup {[stage |-> st, at |-> k] : st \in {"language", "encode"}, k \in 1..Len(refs)}

\* _load_from_db past its guard: the rows are appended to documents and
\* embeddings up to the point the outcome names, and the flag is set
HydratedFrom(docs, emb, refs, outcome) ==
    LET n_docs == CASE outcome.stage = "none" -> Len(refs)
                    [] outcome.stage = "query" -> 0
                    [] outcome.stage = "language" -> outcome.at - 1
                    [] outcome.stage = "encode" -> outcome.at
        n_vecs == CASE outcome.stage = "none" -> Len(refs)
                    [] outcome.stage = "query" -> 0
                    [] outcome.stage = "language" -> outcome.at - 1
                    [] outcome.stage = "encode" -> outcome.at - 1
    IN  [documents |->
             docs \o [i \in 1..n_docs |-> Entry(refs[i].doc_id, refs[i].text)],
         embeddings |-> WithVectors(emb, refs, n_vecs),
         db_initialized |-> TRUE,
         load |-> outcome.stage]

LoadFromDb_unguarded(docs, emb, initialized, refs, outcome) ==
    HydratedFrom(docs, emb, refs, outcome)

\* _load_from_db: documents, embeddings and _db_initialized as it leaves them
LoadFromDb(docs, emb, initialized, refs, outcome) ==
    IF initialized
    THEN [documents |-> docs, embeddings |-> emb, db_initialized |-> TRUE,
          load |-> "skipped"]
    ELSE HydratedFrom(docs, emb, refs, outcome)

\* the outcomes that matter to a call: none once _db_initialized is set
Outcomes == IF db_initialized THEN {[stage |-> "none", at |-> 0]}
            ELSE LoadOutcomes(db_refs)

Loaded(outcome) ==
    LoadFromDb(documents, embeddings, db_initialized, db_refs, outcome)

RemoveAt_kept(seq, i) == seq

\* documents.pop(i) and embeddings[indices] with index i popped
RemoveAt(seq, i) == [j \in 1..(Len(seq) - 1) |-> IF j < i THEN seq[j] ELSE seq[j + 1]]

\* results.sort(key=lambda x: x['score'], reverse=True): stable
RECURSIVE SortDesc(_)
InsertDesc_beforeEqual(sorted, m) ==
    LET k == Cardinality({i \in 1..Len(sorted) : RLt(m.score, sorted[i].score)})
    IN  SubSeq(sorted, 1, k) \o <<m>> \o SubSeq(sorted, k + 1, Len(sorted))

InsertDesc(sorted, m) ==
    LET k == Cardinality({i \in 1..Len(sorted) : RLe(m.score, sorted[i].score)})
    IN  SubSeq(sorted, 1, k) \o <<m>> \o SubSeq(sorted, k + 1, Len(sorted))
SortDesc(seq) ==
    IF seq = <<>> THEN <<>>
    ELSE InsertDesc(SortDesc(SubSeq(seq, 1, Len(seq) - 1)), seq[Len(seq)])

\* threshold: float = 0.4
DefaultThreshold == Rat(4, 10)

\* the match record built for the i-th score
Match(docs, emb, text, i) ==
    [doc_id |-> docs[i].id,
     score |-> Round(RMul(CosSim(text, emb.rows[i]), R(100)), 100),
     is_cross_language |-> docs[i].language # LanguageCode(text)]

Above_band(emb, text, threshold) ==
    {i \in 1..Len(emb.rows) :
        /\ RLt(threshold, CosSim(text, emb.rows[i]))
        /\ RLe(CosSim(text, emb.rows[i]), RAdd(threshold, Rat(1, 10)))}

\* the indices whose score passes `if score_val > threshold`
Above(emb, text, threshold) ==
    {i \in 1..Len(emb.rows) : RLt(threshold, CosSim(text, emb.rows[i]))}

\* PlagiarismDetector.detect after _load_from_db
Detect(docs, emb, text, threshold) ==
    IF emb.none \/ Len(docs) = 0
    THEN [error |-> "", matches |-> <<>>, max_score |-> R(0)]
    ELSE LET above == Above(emb, text, threshold)
         IN  IF \E i \in above : i > Len(docs)
             THEN [error |-> "IndexError", matches |-> <<>>, max_score |-> NoneR]
             ELSE LET RECURSIVE Results(_)
                      Results(n) ==
                          IF n = 0 THEN <<>>
                          ELSE IF n \in above
                               THEN Append(Results(n - 1), Match(docs, emb, text, n))
                               ELSE Results(n - 1)
                      results == SortDesc(Results(Len(emb.rows)))
                  IN  [error |-> "", matches |-> results,
                       max_score |-> IF results # <<>> THEN results[1].score ELSE R(0)]

\* the ReferenceDocument table once add_document has tried to save the row:
\* a failed save (the store down, a doc_id already there) leaves it as it was
SavedRefs(refs, doc_id, text, db_ok) ==
    IF db_ok /\ \A i \in 1..Len(refs) : refs[i].doc_id # doc_id
    THEN Append(refs, Ref(doc_id, text)) ELSE refs

\* the ReferenceDocument table once remove_document has tried to delete
DeletedRefs(refs, doc_id, db_ok) ==
    IF db_ok THEN SelectSeq(refs, LAMBDA r : r.doc_id # doc_id) ELSE refs

\* index_to_remove: the first index whose id matches, 0 for None
IndexToRemove(docs, doc_id) ==
    IF \E i \in 1..Len(docs) : docs[i].id = doc_id
    THEN CHOOSE i \in 1..Len(docs) :
            /\ docs[i].id = doc_id
            /\ \A j \in 1..(i - 1) : docs[j].id # doc_id
    ELSE 0

\* one remembered call: the operation, its doc_id and the length of the
\* document list it found once _load_from_db had run
Call(op, doc_id, size_before) ==
    [op |-> op, doc_id |-> doc_id, size_before |-> size_before]

Recorded(call) ==
    LET s == Append(calls, call)
    IN  IF Len(s) > MaxCalls THEN Tail(s) ELSE s

\* PlagiarismDetector.add_document
Added(ld, doc_id, text, db_ok) ==
    /\ Len(ld.documents) < MaxDocs
    /\ db_refs' = SavedRefs(db_refs, doc_id, text, db_ok)
    /\ documents' = Append(ld.documents, Entry(doc_id, text))
    /\ embeddings' = WithVector(ld.embeddings, Embed(text))
    /\ db_initialized' = TRUE
    /\ calls' = Recorded(Call("add", doc_id, Len(ld.documents)))
    /\ ret' = [Blank EXCEPT !.op = "add_document", !.status = "success",
                            !.doc_id = doc_id, !.load = ld.load,
                            !.durable =
                                IF SavedRefs(db_refs, doc_id, text, db_ok) = db_refs
                                THEN "failed" ELSE "ok"]

add_document ==
    \E doc_id \in DocIds, text \in Texts, db_ok \in BOOLEAN, outcome \in Outcomes :
        /\ Added(Loaded(outcome), doc_id, text, db_ok)
        /\ UNCHANGED <<calVars, userVars>>

\* PlagiarismDetector.remove_document
Removed(ld, doc_id, i, db_ok) ==
    /\ db_initialized' = TRUE
    /\ calls' = Recorded(Call("remove", doc_id, Len(ld.documents)))
    /\ IF i = 0
       THEN /\ documents' = ld.documents
            /\ embeddings' = ld.embeddings
            /\ db_refs' = db_refs
            /\ ret' = [Blank EXCEPT !.op = "remove_document", !.status = "success",
                                    !.doc_id = doc_id, !.found = FALSE,
                                    !.load = ld.load]
       ELSE /\ db_refs' = DeletedRefs(db_refs, doc_id, db_ok)
            /\ documents' = RemoveAt(ld.documents, i)
            /\ IF ld.embeddings.none
               THEN /\ embeddings' = ld.embeddings
                    /\ ret' = [Blank EXCEPT !.op = "remove_document",
                                            !.status = "success",
                                            !.doc_id = doc_id, !.found = TRUE,
                                            !.load = ld.load,
                                            !.durable = IF db_ok THEN "ok"
                                                        ELSE "failed"]
               ELSE IF Len(ld.documents) = 1
               THEN /\ embeddings' = NoEmbeddings
                    /\ ret' = [Blank EXCEPT !.op = "remove_document",
                                            !.status = "success",
                                            !.doc_id = doc_id, !.found = TRUE,
                                            !.load = ld.load,
                                            !.durable = IF db_ok THEN "ok"
                                                        ELSE "failed"]
               ELSE IF i <= Len(ld.embeddings.rows)
               THEN /\ embeddings' = [none |-> FALSE,
                                      rows |-> RemoveAt(ld.embeddings.rows, i)]
                    /\ ret' = [Blank EXCEPT !.op = "remove_document",
                                            !.status = "success",
                                            !.doc_id = doc_id, !.found = TRUE,
                                            !.load = ld.load,
                                            !.durable = IF db_ok THEN "ok"
                                                        ELSE "failed"]
               ELSE \* indices.pop(index_to_remove) raises
                    /\ embeddings' = ld.embeddings
                    /\ ret' = [Blank EXCEPT !.op = "remove_document",
                                            !.status = "error",
                                            !.error = "IndexError",
                                            !.doc_id = doc_id,
                                            !.load = ld.load,
                                            !.durable = IF db_ok THEN "ok"
                                                        ELSE "failed"]

RemoveLoaded(ld, doc_id, db_ok) ==
    Removed(ld, doc_id, IndexToRemove(ld.documents, doc_id), db_ok)

remove_document ==
    \E doc_id \in DocIds, db_ok \in BOOLEAN, outcome \in Outcomes :
        /\ RemoveLoaded(Loaded(outcome), doc_id, db_ok)
        /\ UNCHANGED <<calVars, userVars>>

\* PlagiarismDetector.clear_all_documents
clear_all_documents ==
    \E db_ok \in BOOLEAN :
        /\ db_refs' = IF db_ok THEN <<>> ELSE db_refs
        /\ documents' = <<>>
        /\ embeddings' = NoEmbeddings
        /\ calls' = Recorded(Call("clear", "", Len(documents)))
        /\ ret' = [Blank EXCEPT !.op = "clear_all_documents", !.status = "success",
                                !.durable = IF db_ok THEN "ok" ELSE "failed"]
        /\ UNCHANGED <<db_initialized, calVars, userVars>>

\* PlagiarismDetector.detect, ld being what _load_from_db left
Detected(op, ld, text, threshold, r) ==
    /\ documents' = ld.documents
    /\ embeddings' = ld.embeddings
    /\ db_initialized' = TRUE
    /\ ret' = [Blank EXCEPT !.op = op,
                            !.status = IF r.error = "" THEN "success" ELSE "error",
                            !.error = r.error,
                            !.load = ld.load,
                            !.query = text,
                            !.used_threshold = threshold,
                            !.matches = r.matches,
                            !.max_score = r.max_score]
    /\ UNCHANGED <<db_refs, calls>>

DetectLoaded(op, ld, text, threshold) ==
    Detected(op, ld, text, threshold,
             Detect(ld.documents, ld.embeddings, text, threshold))

\* thresholds callers of PlagiarismDetector.detect pass
ThresholdInputs == {DefaultThreshold, Rat(6, 10)}

\* PlagiarismDetector.detect(text, threshold), threshold being one of thresholds
DetectAt(thresholds) ==
    \E text \in QueryTexts, threshold \in thresholds, outcome \in Outcomes :
        /\ DetectLoaded("detect", Loaded(outcome), text, threshold)
        /\ UNCHANGED <<calVars, userVars>>

detect == DetectAt(ThresholdInputs)

\* a threshold under every score of the corpus
LowThreshold == Rat(3, 10)

detect_low_threshold == DetectAt({LowThreshold})

\* the ReferenceDocument tables the process can start with: at most MaxRefs
\* rows, doc_id unique
RefTables ==
    UNION { { t \in [1..n -> {Ref(d, x) : d \in DocIds, x \in Texts}] :
                \A i, j \in 1..n : i # j => t[i].doc_id # t[j].doc_id } :
            n \in 0..MaxRefs }

StoreInit ==
    /\ ledger = EmptyBag
    /\ layer_weights = NoRow
    /\ mgr_threshold_adjustment = R(0)
    /\ documents = <<>>
    /\ embeddings = NoEmbeddings
    /\ db_initialized = FALSE
    /\ db_refs \in RefTables
    /\ calls = <<>>
    /\ user_docs = <<>>
    /\ weights_rows = 0
    /\ found_absent = {}
    /\ ret = Blank

StoreNext ==
    \/ add_document
    \/ remove_document
    \/ clear_all_documents
    \/ detect

StoreSpec == StoreInit /\ [][StoreNext]_vars

\* a process that only queries the corpus the durable store holds
DetectSpec == StoreInit /\ [][detect]_vars

OrderNext ==
    \/ detect
    \/ detect_low_threshold

OrderSpec == StoreInit /\ [][OrderNext]_vars

-----------------------------------------------------------------------------
(* PlagiarismDetector: cross-user detection over the UserDocument table    *)

\* e-mail addresses of callers; a UserDocument row names its owner by e-mail
\* here (the code joins users.id: one id per e-mail, -1 for an unknown one)
UserEmails == {"u1", "u2"}

\* a UserDocument row
UserDocument(owner, doc_id, text) ==
    [owner |-> owner, doc_id |-> doc_id, text |-> text,
     language_code |-> LanguageCode(text)]

\* the query `existing`: a row of this user with this doc_id
ExistingUserDocument(docs, user_email, doc_id) ==
    \E i \in 1..Len(docs) : docs[i].owner = user_email /\ docs[i].doc_id = doc_id

\* PlagiarismDetector.store_user_document
store_user_document ==
    \E user_email \in UserEmails, doc_id \in DocIds, text \in Texts :
        /\ IF ExistingUserDocument(user_docs, user_email, doc_id)
           THEN /\ user_docs' = user_docs
                /\ ret' = [Blank EXCEPT !.op = "store_user_document",
                                        !.status = "exists", !.doc_id = doc_id,
                                        !.requester = user_email]
           ELSE /\ Len(user_docs) < MaxUserDocs
                /\ user_docs' = Append(user_docs,
                                       UserDocument(user_email, doc_id, text))
                /\ ret' = [Blank EXCEPT !.op = "store_user_document",
                                        !.status = "stored", !.doc_id = doc_id,
                                        !.requester = user_email]
        /\ UNCHANGED <<calVars, storeVars>>

\* PlagiarismDetector.delete_user_document
delete_user_document ==
    \E user_email \in UserEmails, doc_id \in DocIds :
        /\ user_docs' = SelectSeq(user_docs,
                LAMBDA d : ~(d.owner = user_email /\ d.doc_id = doc_id))
        /\ ret' = [Blank EXCEPT !.op = "delete_user_document",
                                !.status = "success", !.doc_id = doc_id,
                                !.requester = user_email,
                                !.found = ExistingUserDocument(user_docs,
                                                               user_email, doc_id)]
        /\ UNCHANGED <<calVars, storeVars>>

OtherDocs_all(docs, exclude_user_email) == docs

\* other_docs: the rows whose user_id is not the excluded user's
OtherDocs(docs, exclude_user_email) ==
    SelectSeq(docs, LAMBDA d : d.owner # exclude_user_email)

\* the match record built for a row whose score is above the threshold
CrossUserMatch(doc, text) ==
    [doc_id |-> doc.doc_id,
     score |-> Round(RMul(CosSim(text, Embed(doc.text)), R(100)), 100),
     owner_email |-> doc.owner,
     is_cross_language |-> doc.language_code # LanguageCode(text)]

\* PlagiarismDetector.detect_cross_user: what it returns
DetectCrossUser(docs, text, exclude_user_email, threshold) ==
    LET other_docs == OtherDocs(docs, exclude_user_email)
        RECURSIVE Results(_)
        Results(n) ==
            IF n = 0 THEN <<>>
            ELSE IF RLt(threshold, CosSim(text, Embed(other_docs[n].text)))
                 THEN Append(Results(n - 1), CrossUserMatch(other_docs[n], text))
                 ELSE Results(n - 1)
        results == SortDesc(Results(Len(other_docs)))
    IN  IF Len(other_docs) = 0
        THEN [matches |-> <<>>, max_score |-> R(0), total_documents_checked |-> 0]
        ELSE [matches |-> results,
              max_score |-> IF results # <<>> THEN results[1].score ELSE R(0),
              total_documents_checked |-> Len(other_docs)]

CrossUserDetected(text, exclude_user_email, threshold, r) ==
    /\ ret' = [Blank EXCEPT !.op = "detect_cross_user",
                            !.status = "success",
                            !.query = text,
                            !.requester = exclude_user_email,
                            !.used_threshold = threshold,
                            !.matches = r.matches,
                            !.max_score = r.max_score,
                            !.total_documents_checked = r.total_documents_checked]
    /\ UNCHANGED <<calVars, storeVars, userVars>>

\* PlagiarismDetector.detect_cross_user(text, exclude_user_email), the
\* requester being a known user or one the users table does not hold
detect_cross_user ==
    \E text \in QueryTexts, exclude_user_email \in UserEmails \cup {"nobody"} :
        CrossUserDetected(text, exclude_user_email, DefaultThreshold,
            DetectCrossUser(user_docs, text, exclude_user_email, DefaultThreshold))

CrossInit ==
    /\ ledger = EmptyBag
    /\ layer_weights = NoRow
    /\ mgr_threshold_adjustment = R(0)
    /\ documents = <<>>
    /\ embeddings = NoEmbeddings
    /\ db_initialized = FALSE
    /\ db_refs = <<>>
    /\ calls = <<>>
    /\ user_docs = <<>>
    /\ weights_rows = 0
    /\ found_absent = {}
    /\ ret = Blank

CrossNext ==
    \/ store_user_document
    \/ delete_user_document
    \/ detect_cross_user

CrossSpec == CrossInit /\ [][CrossNext]_vars

-----------------------------------------------------------------------------
(* main.py: the handlers that join detection and calibration *)

\* FeedbackSubmission.severity values a request carries; 0 stands for null
SeverityInputs == {0, 70}

ValidSubmission_any(feedback_type, detection_layer) == TRUE

\* FeedbackSubmission validators: feedback_type and detection_layer
ValidSubmission(feedback_type, detection_layer) ==
    /\ feedback_type \in FeedbackTypes
    /\ detection_layer = NoLayer \/ detection_layer \in RebalanceLayers

\* POST /feedback: submit_feedback(feedback, x_username).  The handler passes
\* severity=, detection_layer=, confidence_override= and notes= to
\* FeedbackManager.submit_feedback, whose signature has none of them: the
\* call raises TypeError before the manager runs, and the handler catches
\* ValueError only.
main_submit_feedback ==
    \E feedback_type \in FeedbackTypes \cup {"other"},
       detection_layer \in {NoLayer, "semantic", "other"},
       severity \in SeverityInputs :
        /\ IF ~ValidSubmission(feedback_type, detection_layer)
           THEN ret' = [Blank EXCEPT !.op = "submit_feedback",
                                     !.status = "error",
                                     !.error = "ValidationError",
                                     !.request.feedback_type = feedback_type,
                                     !.request.detection_layer = detection_layer]
           ELSE ret' = [Blank EXCEPT
                          !.op = "submit_feedback",
                          !.status = "error",
                          !.error = "TypeError",
                          !.request =
                              [feedback_type |-> feedback_type,
                               detection_layer |-> detection_layer,
                               \* severity=feedback.severity or 50
                               severity |-> IF severity = 0 THEN DefaultSeverity
                                            ELSE severity]]
        /\ UNCHANGED <<calVars, storeVars, userVars>>

\* POST /detect: detect_plagiarism(submission) calls detector.detect(text)
\* with the default threshold
detect_plagiarism ==
    \E text \in QueryTexts \cup {""}, outcome \in Outcomes :
        /\ IF text = ""
           THEN /\ ret' = [Blank EXCEPT !.op = "detect_plagiarism",
                                        !.status = "error", !.error = "HTTP400"]
                /\ UNCHANGED storeVars
           ELSE DetectLoaded("detect_plagiarism", Loaded(outcome), text,
                             DefaultThreshold)
        /\ UNCHANGED <<calVars, userVars>>

\* the reference corpus of the service
ApiCorpus == <<Ref("A", "t1"), Ref("B", "t2")>>

ApiInit ==
    /\ ledger \in BatchSeedsOf({"semantic"})
    /\ layer_weights = NoRow
    /\ mgr_threshold_adjustment = R(0)
    /\ documents = <<>>
    /\ embeddings = NoEmbeddings
    /\ db_initialized = FALSE
    /\ db_refs = ApiCorpus
    /\ calls = <<>>
    /\ user_docs = <<>>
    /\ weights_rows = 0
    /\ found_absent = {}
    /\ ret = Blank

\* GET /learning/weights, POST /feedback/retrain, POST /feedback, POST /detect
\* and direct calls of the FeedbackManager
ApiNext ==
    \/ get_or_create_weights
    \/ trigger_retrain
    \/ FeedbackManager_submit_feedback
    \/ main_submit_feedback
    \/ detect_plagiarism

ApiSpec == ApiInit /\ [][ApiNext]_vars

-----------------------------------------------------------------------------
(* Properties of the calibration core, checked under Spec *)

\* the LayerWeights row a reader finds: the row, or the defaults that the
\* first get_or_create_weights would create
CalibrationView == IF layer_weights.exists THEN layer_weights ELSE DefaultRow

EffectiveThreshold(row) == RAdd(row.base_threshold, row.threshold_adjustment)

InWeightRange(x) == RLe(Rat(1, 10), x) /\ RLe(x, Rat(8, 10))

InAdjustmentRange(x) == RLe(R(-15), x) /\ RLe(x, R(15))

TenFalsePositives(L) ==
    /\ Total(L) = 10
    /\ \A e \in DOMAIN L : IsFP(e) /\ e.match_score = 80

TenSemanticFalsePositives ==
    ledger = Copies(SeedRow("false_positive", "semantic", 80), 10)

\* C1: after rebalance_layer_weights, each of the three weights returned as
\* new_weights and each weight written to the LayerWeights row lies in
\* [0.10, 0.80].
C1_WeightsWithinFloorAndCeiling ==
    ret.op = "rebalance_layer_weights" =>
        /\ \A i \in 1..3 : InWeightRange(ret.new_weights[i])
        /\ layer_weights.exists =>
             \A i \in 1..3 : InWeightRange(RowWeights(layer_weights)[i])

\* C2: whenever a LayerWeights row exists (the defaults, or the row after any
\* submissions, calibrations, rebalances and retrains), its three weights sum
\* to exactly 1.
C2_WeightsSumToOne ==
    layer_weights.exists => Sum3(RowWeights(layer_weights)) = R(1)

\* C2 witness: a row written by a rebalance in which the clamp took effect
C2_Witness ==
    /\ ret.op = "rebalance_layer_weights"
    /\ layer_weights.exists
    /\ RLt(layer_weights.semantic_weight, Rat(1, 10))

\* C3: the threshold adjustment held in the LayerWeights row, the one held by
\* the FeedbackManager and the one a feedback submission reports all lie in
\* [-15, +15].
C3_AdjustmentWithinClamp ==
    /\ layer_weights.exists => InAdjustmentRange(layer_weights.threshold_adjustment)
    /\ InAdjustmentRange(mgr_threshold_adjustment)
    /\ (ret.op = "FeedbackManager.submit_feedback" /\ ret.status = "success") =>
           InAdjustmentRange(ret.threshold_adjustment)

\* C3 witness: a submission and a calibration over eleven false positives
C3_Witness ==
    /\ layer_weights.exists
    /\ layer_weights.threshold_adjustment = R(14)
    /\ mgr_threshold_adjustment = R(10)

\* C4: the effective threshold calculate_adaptive_threshold returns is
\* base_threshold + threshold_adjustment of the calibration state as it
\* stands after the call, also when no row had been created.
C4_EffectiveIsBasePlusAdjustment ==
    ret.op = "calculate_adaptive_threshold" =>
        ret.threshold = EffectiveThreshold(CalibrationView)

\* C5 as stated: over ten false positives with match_score 80, calibration
\* reports a global false-positive rate of 1.0 (100.0 %) and an adjustment
\* of +15.
C5_AdjustmentFifteen ==
    (ret.op = "calculate_adaptive_threshold" /\ TenFalsePositives(ledger)) =>
        /\ ret.global_fp_rate = R(100)
        /\ ret.threshold_adjustment = R(15)
        /\ layer_weights.exists => layer_weights.threshold_adjustment = R(15)

\* C5 as amended: over ten false positives with match_score 80, calibration
\* reports a global false-positive rate of 1.0 (100.0 %) and an adjustment
\* of +14, which is what an existing LayerWeights row then holds.
C5_AdjustmentFourteen ==
    (ret.op = "calculate_adaptive_threshold" /\ TenFalsePositives(ledger)) =>
        /\ ret.global_fp_rate = R(100)
        /\ ret.threshold_adjustment = R(14)
        /\ layer_weights.exists => layer_weights.threshold_adjustment = R(14)

\* C5 witness: the calibration of ten semantic false positives, row present
C5_Witness ==
    /\ ret.op = "calculate_adaptive_threshold"
    /\ TenSemanticFalsePositives
    /\ layer_weights.exists

\* C6: over ten false positives all tagged semantic, rebalance_layer_weights
\* yields semantic 0.10 and stylometry and cross_lang 0.45 each.
C6_SemanticAtFloor ==
    (ret.op = "rebalance_layer_weights" /\ TenSemanticFalsePositives) =>
        /\ ret.new_weights = <<Rat(10, 100), Rat(45, 100), Rat(45, 100)>>
        /\ layer_weights.exists =>
             RowWeights(layer_weights) = <<Rat(10, 100), Rat(45, 100), Rat(45, 100)>>

C16_OnlyRetrainChangesWeights ==
    [][/\ ret'.op = "FeedbackManager.submit_feedback" =>
              layer_weights' = layer_weights
       /\ RowWeights(CalibrationView') # RowWeights(CalibrationView) =>
              ret'.op \in {"trigger_retrain", "rebalance_layer_weights"}]_vars

C16_Witness ==
    /\ ret.op = "FeedbackManager.submit_feedback"
    /\ ret.status = "success"
    /\ layer_weights.exists
    /\ RowWeights(layer_weights) # RowWeights(DefaultRow)

\* C17: with fewer than 10 Feedback rows, calculate_adaptive_threshold
\* returns the base_threshold of the row (40.0 when there is none) as it is,
\* reports learning_active false and feedback_needed = 10 - rows, and writes
\* nothing.
C17_ColdGate ==
    [][(ret'.op = "calculate_adaptive_threshold" /\ Total(ledger) < 10) =>
           /\ ret'.threshold = IF layer_weights.exists
                               THEN layer_weights.base_threshold ELSE R(40)
           /\ ~ret'.learning_active
           /\ ret'.feedback_needed = 10 - Total(ledger)
           /\ UNCHANGED <<ledger, layer_weights, mgr_threshold_adjustment>>]_vars

C17_Witness ==
    /\ ret.op = "calculate_adaptive_threshold"
    /\ Total(ledger) = 9
    /\ ret.feedback_needed = 1
    /\ layer_weights.exists

\* C18: after calculate_adaptive_threshold or trigger_retrain has run on 10
\* or more Feedback rows, the LayerWeights row holds the adjustment computed
\* and total_feedback_processed = the number of rows read; after
\* rebalance_layer_weights (alone or in a retrain) it holds the weights
\* computed; a row that was missing before the call exists afterwards.
C18_ResultsPersisted ==
    /\ (ret.op \in {"calculate_adaptive_threshold", "trigger_retrain"}
           /\ ret.learning_active) =>
           /\ layer_weights.exists
           /\ layer_weights.threshold_adjustment =
                  AdaptiveAdjustment(GlobalFpRate(ledger))
           /\ layer_weights.total_feedback_processed = Total(ledger)
    /\ ret.op \in {"rebalance_layer_weights", "trigger_retrain"} =>
           /\ layer_weights.exists
           /\ RowWeights(layer_weights) = NewWeights(ledger)

-----------------------------------------------------------------------------
(* Properties of the handlers, checked under ApiSpec *)

\* the matches detect would report at the effective threshold of the
\* calibration state, a percentage
MatchesAtEffectiveThreshold ==
    Detect(documents, embeddings, ret.query,
           RDiv(EffectiveThreshold(CalibrationView), R(100))).matches

\* C8: a detection call filters its candidates with the current effective
\* threshold (base_threshold + threshold_adjustment) of the calibration
\* state, whatever submission or retrain changed the adjustment before.
C8_DetectUsesEffectiveThreshold ==
    (ret.op = "detect_plagiarism" /\ ret.status = "success") =>
        /\ RMul(ret.used_threshold, R(100)) = EffectiveThreshold(CalibrationView)
        /\ ret.matches = MatchesAtEffectiveThreshold

\* C9: a submission with a valid feedback_type and an optional severity and
\* detection_layer succeeds and appends exactly one Feedback row, which
\* carries the detection_layer and the severity supplied.
C9_SubmissionStoresLayerAndSeverity ==
    (ret.op = "submit_feedback" /\ ret.error # "ValidationError") =>
        /\ ret.status = "success"
        /\ ret.appended = 1
        /\ ret.entry.detection_layer = ret.request.detection_layer
        /\ ret.entry.severity = ret.request.severity
        /\ BagIn(ret.entry, ledger)

\* the last call was a feedback submission, through the handler or straight
\* to the manager
SubmissionOps == {"submit_feedback", "FeedbackManager.submit_feedback"}

\* C15: a submission whose feedback_type is neither false_positive nor
\* confirmed, or whose detection_layer is given and is not one of semantic,
\* stylometry, cross_lang, paraphrase, is rejected with a validation error
\* and changes nothing: no Feedback row, no new threshold adjustment, the
\* LayerWeights row as it was.
C15_InvalidSubmissionRejected ==
    [][(/\ ret'.op \in SubmissionOps
        /\ \/ ret'.request.feedback_type \notin {"false_positive", "confirmed"}
           \/ ret'.request.detection_layer \notin
                  {NoLayer, "semantic", "stylometry", "cross_lang", "paraphrase"})
       => /\ ret'.status = "error"
          /\ ret'.error \in {"ValidationError", "ValueError"}
          /\ ret'.appended = 0
          /\ UNCHANGED <<ledger, layer_weights, mgr_threshold_adjustment>>]_vars

C15_Witness ==
    /\ ret.op = "submit_feedback"
    /\ ret.request.feedback_type = "confirmed"
    /\ ret.request.detection_layer = "other"
    /\ ret.error = "ValidationError"
    /\ layer_weights.exists
    /\ Total(ledger) >= MinFeedbackForAdjustment

-----------------------------------------------------------------------------
(* Properties of the reference store, checked under StoreSpec *)

\* C10: the document list and the vector collection have the same length
\* and the i-th vector is the embedding of the i-th document.
C10_DocumentsAndVectorsAligned ==
    /\ Len(documents) = Len(embeddings.rows)
    /\ \A i \in 1..Len(documents) : embeddings.rows[i] = Embed(documents[i].text)


\* the last three remembered calls are add(d) on a store that listed
\* nothing, then remove(d), then add(d)
AddRemoveAdd(d) ==
    /\ Len(calls) >= 3
    /\ calls[Len(calls) - 2] = Call("add", d, 0)
    /\ calls[Len(calls) - 1].op = "remove" /\ calls[Len(calls) - 1].doc_id = d
    /\ calls[Len(calls)].op = "add" /\ calls[Len(calls)].doc_id = d

\* C11: after add(A), remove(A), add(A) on an empty store, count() is 1,
\* list() holds exactly one entry, the entry of A, and exactly one vector is
\* stored, the embedding of that entry.
C11_AddRemoveAddCountsOne ==
    \A d \in DocIds :
        AddRemoveAdd(d) =>
            /\ Len(documents) = 1
            /\ documents[1].id = d
            /\ ~embeddings.none
            /\ Len(embeddings.rows) = 1
            /\ embeddings.rows[1] = Embed(documents[1].text)

C11_Witness ==
    /\ AddRemoveAdd("A")
    /\ ret.op = "add_document"
    /\ ret.durable = "failed"
    /\ Len(documents) = 1

\* the last operation ran _load_from_db, which caught an exception
HydrationFailed == ret.load \in {"query", "language", "encode"}

\* C12: when the hydration run by a detect call fails, at the query or at
\* any document, the call still returns a result, the store is empty
\* (count() is 0) and the result has no matches and max_score 0.0.
C12_FailedHydrationLeavesEmptyStore ==
    (ret.op = "detect" /\ HydrationFailed) =>
        /\ ret.status = "success"
        /\ Len(documents) = 0
        /\ ret.matches = <<>>
        /\ ret.max_score = R(0)

\* C13: when the durable write of an add, remove or clear fails, the
\* in-memory effect stands for the operations that follow: a detect that
\* comes next finds the document list and the vectors as the call left them
\* (the added document listed, the removed one absent, the cleared store
\* empty), whether the call was made before or after hydration.
C13_MemoryEffectStands ==
    [][(ret.durable = "failed" /\ ret'.op = "detect") =>
           (documents' = documents /\ embeddings' = embeddings)]_vars

\* C14: once an operation has hydrated the store (with or without failure),
\* no later operation loads from the durable store again: the flag stays
\* set, _load_from_db returns at its guard, and the document list grows by
\* the one entry of an add only, so hydration lists no stored document twice.
C14_HydratesAtMostOnce ==
    [][db_initialized =>
           /\ db_initialized'
           /\ ret'.load \in {"", "skipped"}
           /\ Len(documents') <=
                  Len(documents) + (IF ret'.op = "add_document" THEN 1 ELSE 0)]_vars

C14_Witness ==
    /\ db_initialized
    /\ ret.op = "detect"
    /\ ret.load = "skipped"
    /\ Len(db_refs) > Len(documents)

-----------------------------------------------------------------------------
(* Properties of detect as a function of its threshold, checked under      *)
(* DetectSpec                                                              *)

\* thresholds the monotonicity of detect is checked for
MonotoneThresholds ==
    ThresholdInputs \cup {Rat(3, 10), Rat(5, 10), Rat(93, 100)}

\* the set of matches detect returns for the store as it stands
MatchSet(text, threshold) ==
    LET matches == Detect(documents, embeddings, text, threshold).matches
    IN  {matches[i] : i \in 1..Len(matches)}

MatchSets == [text \in QueryTexts, t \in MonotoneThresholds |-> MatchSet(text, t)]

Monotone(sets) ==
    \A text \in QueryTexts : \A t1, t2 \in MonotoneThresholds :
        RLt(t1, t2) => sets[text, t2] \subseteq sets[text, t1]

\* C19: for the same query and corpus and thresholds t1 < t2, every match
\* detect returns at t2 is among those it returns at t1.
C19_DetectMonotoneInThreshold == Monotone(MatchSets)

C19_Witness ==
    /\ ret.op = "detect"
    /\ ret.query = "q1"
    /\ ret.used_threshold = DefaultThreshold
    /\ ret.matches # <<>>
    /\ MatchSet("q1", DefaultThreshold) # MatchSet("q1", Rat(3, 10))

-----------------------------------------------------------------------------
(* Properties of cross-user detection, checked under CrossSpec *)

\* the UserDocument rows owned by users other than the requester
OwnedByOthers(requester) ==
    {i \in 1..Len(user_docs) : user_docs[i].owner # requester}

\* C20: cross-user detection compares the query with the documents of users
\* other than the requester only and reports their number as
\* total_documents_checked: every match is a document of another user, every
\* such document scoring above the threshold is matched, the count is 0 with
\* empty matches exactly when no such document exists, and it is nonzero
\* when they exist even if none is matched.
C20_CrossUserChecksOthersOnly ==
    ret.op = "detect_cross_user" =>
        LET others == OwnedByOthers(ret.requester)
            hits == {i \in others :
                        RLt(ret.used_threshold,
                            CosSim(ret.query, Embed(user_docs[i].text)))}
        IN  /\ ret.total_documents_checked = Cardinality(others)
            /\ Len(ret.matches) = Cardinality(hits)
            /\ \A k \in 1..Len(ret.matches) :
                   /\ ret.matches[k].owner_email # ret.requester
                   /\ \E i \in hits :
                          /\ user_docs[i].doc_id = ret.matches[k].doc_id
                          /\ user_docs[i].owner = ret.matches[k].owner_email
            /\ (others = {}) <=> (ret.total_documents_checked = 0)
            /\ others = {} => ret.matches = <<>>

C20_Witness ==
    /\ ret.op = "detect_cross_user"
    /\ ret.matches = <<>>
    /\ ret.total_documents_checked > 0
    /\ \E i \in 1..Len(user_docs) :
           /\ user_docs[i].owner = ret.requester
           /\ RLt(ret.used_threshold, CosSim(ret.query, Embed(user_docs[i].text)))

-----------------------------------------------------------------------------
(* Properties of the stored score and of the score buckets, under ScoreSpec *)

\* C21: every Feedback row a successful submission stores has a match_score
\* that is an integer within 0..100, whatever match_score the caller passed
C21_StoredScoreWithin0To100 ==
    (ret.op = "FeedbackManager.submit_feedback" /\ ret.status = "success")
        => /\ ret.entry \in DOMAIN ledger
           /\ ret.entry.match_score \in 0..100

\* the rows of L whose match_score lies within 0..100
WithinScale(L) == {e \in DOMAIN L : e.match_score >= 0 /\ e.match_score <= 100}

RECURSIVE BucketTotal(_, _)
\* the rows counted by the first i entries of a score_range_analysis
BucketTotal(analysis, i) ==
    IF i = 0 THEN 0
    ELSE analysis[i].false_positives + analysis[i].confirmed
         + BucketTotal(analysis, i - 1)

\* C22: an active calibration counts every ledger row with match_score in
\* 0..100 in exactly one of the four buckets, the row with score 100 in the
\* last one: the false positives and confirmed of the four buckets add up
\* to the number of such rows
C22_BucketsCoverTheScale ==
    (ret.op = "calculate_adaptive_threshold" /\ ret.learning_active)
        => /\ Len(ret.score_range_analysis) = 4
           /\ BucketTotal(ret.score_range_analysis, 4)
                = Count(ledger, WithinScale(ledger))

-----------------------------------------------------------------------------
(* The adjustment formula, under Spec *)

\* (fp / total - 0.30) * 20, kept within -15..15
TargetedAdjustment(fp, total) ==
    LET raw == Rat(2 * (10 * fp - 3 * total), total)
    IN  IF RLt(raw, R(-15)) THEN R(-15)
        ELSE IF RLt(R(15), raw) THEN R(15) ELSE raw

\* C23: with at least 10 ledger entries the adjustment threshold calibration
\* computes is (false_positive entries / all entries - 0.30) * 20 clamped to
\* -15..15: it is what the call returns (to one decimal), what it adds to
\* the base threshold and what it writes into the row
C23_AdjustmentIsTargetedAt30Percent ==
    (ret.op = "calculate_adaptive_threshold" /\ Total(ledger) >= 10)
        => LET fp == Count(ledger, {e \in DOMAIN ledger : IsFP(e)})
               adjustment == TargetedAdjustment(fp, Total(ledger))
           IN  /\ ret.learning_active
               /\ ret.threshold_adjustment = Round(adjustment, 10)
               /\ ret.threshold = RAdd(BaseOf(layer_weights), adjustment)
               /\ layer_weights.exists
                    => layer_weights.threshold_adjustment = adjustment

\* a calibration of 11 entries, 4 of them false positives: the rate is 5
\* points and more above the target and the adjustment is 14/11
C23_Witness ==
    /\ ret.op = "calculate_adaptive_threshold"
    /\ Total(ledger) = 11
    /\ Count(ledger, {e \in DOMAIN ledger : IsFP(e)}) = 4
    /\ layer_weights.exists
    /\ layer_weights.threshold_adjustment = Rat(14, 11)

-----------------------------------------------------------------------------
(* What the weights depend on, under RebalanceSpec *)

\* the ledger without its rows tagged paraphrase or not tagged at all
TaggedOnly(L) ==
    [e \in {x \in DOMAIN L : \E i \in 1..3 : x.detection_layer = WeightedLayers[i]}
        |-> L[e]]

\* C24: the weights rebalance_layer_weights computes depend only on the rows
\* tagged semantic, stylometry or cross_lang: they are the weights of the
\* ledger without its paraphrase and untagged rows, so two ledgers that
\* differ only in such rows get the same weights; a layer without rows
\* enters with accuracy 0.5
C24_WeightsDependOnWeightedLayersOnly ==
    ret.op = "rebalance_layer_weights"
        => /\ ret.new_weights
                = RebalanceLayerWeights(TaggedOnly(ledger), layer_weights).new_weights
           /\ layer_weights.exists
                => RowWeights(layer_weights) = NewWeights(TaggedOnly(ledger))
           /\ \A i \in 1..3 :
                  Count(ledger, {e \in DOMAIN ledger :
                                    e.detection_layer = WeightedLayers[i]}) = 0
                      => ret.layer_statistics[WeightedLayers[i]] = R(50)

\* a rebalance of a ledger with semantic rows, no stylometry row, a
\* paraphrase row and an untagged row, written into the row
C24_Witness ==
    /\ ret.op = "rebalance_layer_weights"
    /\ layer_weights.exists
    /\ Count(ledger, {e \in DOMAIN ledger : e.detection_layer = "semantic"}) > 0
    /\ Count(ledger, {e \in DOMAIN ledger : e.detection_layer = "stylometry"}) = 0
    /\ Count(ledger, {e \in DOMAIN ledger : e.detection_layer = "paraphrase"}) > 0
    /\ UnlayeredCount(ledger) > 0
    /\ ret.new_weights # NoWeights

-----------------------------------------------------------------------------
(* The order of the matches, under OrderSpec *)

\* the place of the document doc_id in the store
StoreOrder(doc_id) ==
    CHOOSE i \in 1..Len(documents) : documents[i].id = doc_id

\* C25: the matches detect returns are ordered by score, highest first,
\* matches of equal score stand in the order of their documents in the
\* store, and max_score is the score of the first match, 0.0 without a match
C25_MatchesSortedByScoreStable ==
    (ret.op = "detect" /\ ret.status = "success")
        => /\ \A i, j \in 1..Len(ret.matches) :
                  i < j => /\ RLe(ret.matches[j].score, ret.matches[i].score)
                           /\ ret.matches[i].score = ret.matches[j].score
                                => StoreOrder(ret.matches[i].doc_id)
                                     < StoreOrder(ret.matches[j].doc_id)
           /\ ret.max_score = IF ret.matches = <<>> THEN R(0)
                              ELSE ret.matches[1].score

\* two matches of equal score, returned in store order
C25_Witness ==
    /\ ret.op = "detect"
    /\ ret.status = "success"
    /\ Len(ret.matches) = 2
    /\ ret.matches[1].score = ret.matches[2].score
    /\ ret.max_score = R(93)

\* two matches the sort had to swap: the second document scores higher
C25_WitnessSwapped ==
    /\ ret.op = "detect"
    /\ Len(ret.matches) = 2
    /\ RLt(ret.matches[2].score, ret.matches[1].score)
    /\ StoreOrder(ret.matches[2].doc_id) < StoreOrder(ret.matches[1].doc_id)

-----------------------------------------------------------------------------
(* What a detect finds while other requests change the store, under StoreSpec *)

-----------------------------------------------------------------------------
(* The LayerWeights row as a singleton, under FirstAccessSpec *)

\* C27: the LayerWeights table never holds more than one row, also when the
\* first accesses of several processes interleave, and the row an access
\* creates holds the defaults until a calibration writes into it
C27_AtMostOneRow ==
    /\ weights_rows <= 1
    /\ layer_weights.exists = (weights_rows > 0)
    /\ (ret.op = "get_or_create_weights" /\ weights_rows = 1)
          => layer_weights.exists

-----------------------------------------------------------------------------
(* Learning never switches off, under StatsSpec *)

\* the calls that report learning_active
ReportsLearning ==
    ret.op \in {"calculate_adaptive_threshold", "trigger_retrain",
                "get_stats", "get_analytics"}

\* C28: no step makes the ledger smaller, so a warm ledger never turns cold,
\* and once a calibration or statistics call has reported learning_active
\* true, every later such call reports it true
C28_LearningStaysActive ==
    /\ [][Total(ledger') >= Total(ledger)]_vars
    /\ []((ReportsLearning /\ ret.learning_active)
            => [](ReportsLearning => ret.learning_active))

\* a statistics call that reports learning active on a ledger that has
\* grown past the 10 entries a calibration reported active on
C28_Witness ==
    /\ ret.op = "get_stats"
    /\ ret.learning_active
    /\ Total(ledger) = 11
    /\ UnlayeredCount(ledger) > 0
    /\ layer_weights.total_feedback_processed = 10

-----------------------------------------------------------------------------
(* The adjustment a submission returns, under Spec *)

\* C29: the threshold_adjustment a successful submission returns is the one
\* the LayerWeights row holds and the one calculate_adaptive_threshold
\* computes from the ledger the submission left (stated for a row that
\* exists and a ledger of 10 entries and more, where calibration is active)
C29_SubmissionReturnsEngineAdjustment ==
    (/\ ret.op = "FeedbackManager.submit_feedback" /\ ret.status = "success"
     /\ layer_weights.exists /\ Total(ledger) >= MinFeedbackForLearning)
        => /\ ret.threshold_adjustment = layer_weights.threshold_adjustment
           /\ ret.threshold_adjustment
                = CalculateAdaptiveThreshold(ledger, layer_weights)
                      .row.threshold_adjustment

-----------------------------------------------------------------------------
(* What remove_document reports and leaves, under StoreSpec *)

\* document_exists(doc_id) on the list docs; get_document(doc_id) returns a
\* document exactly when it holds
DocumentExists(docs, doc_id) ==
    \E i \in 1..Len(docs) : docs[i].id = doc_id

\* C30: a remove_document on a hydrated store returns true exactly when a
\* document with that id was in the store before the call, and after a
\* true return document_exists(id) is false and get_document(id) finds
\* nothing, whatever adds came before, the same id added twice included
C30_RemoveReportsAndRemoves ==
    [][(ret'.op = "remove_document" /\ ret'.status = "success" /\ db_initialized)
          => /\ ret'.found = DocumentExists(documents, ret'.doc_id)
             /\ ret'.found => ~DocumentExists(documents', ret'.doc_id)]_vars

=============================================================================
